---- MODULE Spec2Model ----
(***************************************************************************)
(* Model of the rosette drawing programs:                                  *)
(*   src/task1/draw_figure.py   draw, _draw_petal                          *)
(*   src/task1/program.py       fixed compositions (the caller of draw)    *)
(*   src/task2/gen_program.py   seeded batch generator and the exporter    *)
(*                                                                         *)
(* The pen (turtle.Turtle) is a record: position, heading, pen-down flag,  *)
(* pen size, pen colour, visibility and the line items it has drawn.       *)
(*                                                                         *)
(* Angles are exact rationals: one degree is UnitsPerDegree units, chosen  *)
(* so that 360 / n is a whole number of units for every n in 3..15.        *)
(* The program computes them in floats and turtle.heading() rounds its     *)
(* reading to 10 decimals: a reading agrees with the exact value to that   *)
(* precision, which is the precision the model's equalities stand for.     *)
(*                                                                         *)
(* A position is an exact formal sum: an integer base point plus the       *)
(* sequence of polar displacements (forward moves and arcs) made from it.  *)
(* goto(p) replaces the position by p, as Vec2D assignment does.           *)
(***************************************************************************)
EXTENDS Integers, Sequences, FiniteSets, TLC

VARIABLES
    artist,          \* the turtle.Turtle the program draws with
    colormode,       \* turtle's module-wide colour mode (1 or 255)
    pc,              \* position of the single thread of control
    ret,             \* where draw returns to
    exc,             \* the exception that ended the run ("None" when none)
    args,            \* draw's keyword arguments
    original_state,  \* draw's local, line 47
    rotation_angle,  \* draw's local, line 55
    index,           \* draw's loop variable, line 57
    petal,           \* _draw_petal's locals, lines 82-84
    entry,           \* history: the pen when draw was called
    petal_entry,     \* history: the pen when _draw_petal was called
    petals,          \* history: the pen at each _draw_petal call of this draw
    seed,            \* args.seed: <<>> (None) or <<n>>
    rng,             \* state of the random.Random instance
    Image,           \* "PIL" when Pillow imported, "None" otherwise
    color_mode_set,  \* _COLOR_MODE_SET
    img_index,       \* main's loop variable, line 150
    parameters,      \* main's local, line 156
    last_parameters, \* main's local: <<>> (None) or <<parameters>>
    files,           \* the file system: path -> content
    printed,         \* what was printed to the console
    canvas,          \* the items the screen's canvas shows
    save,            \* save_canvas_png's arguments and locals
    trace,           \* history: the operations of the batch run, in order
    runs             \* two independent batch runs, reduced to their sampling

drawVars  == <<args, original_state, rotation_angle, index, petal,
               entry, petal_entry, petals>>
mainVars  == <<seed, rng, Image, color_mode_set, img_index, parameters,
               last_parameters, files, printed, canvas, save, trace>>
vars == <<artist, colormode, pc, ret, exc, drawVars, mainVars, runs>>

----------------------------------------------------------------------------
(* Angles *)

UnitsPerDegree == 1001
FullCircle == 360 * UnitsPerDegree
Deg(d) == d * UnitsPerDegree

(* Bounds of the explored inputs *)
NumSizes == 2
NumHeadings == 2
MaxImages == 3
RngMod == 32
MaxSeed == 1

----------------------------------------------------------------------------
(* turtle.Turtle primitives, as the calls of draw_figure.py use them *)

Origin == [x |-> 0, y |-> 0, off |-> <<>>]
Point(p) == [x |-> p[1], y |-> p[2], off |-> <<>>]

\* A line item of the canvas: recorded by every move made with the pen down.
Line(t, to) ==
    [kind |-> "line", from |-> t.pos, to |-> to, radius |-> 0, extent |-> 0,
     width |-> t.pensize, color |-> t.pencolor]
Arc(t, to, radius, extent) ==
    [kind |-> "arc", from |-> t.pos, to |-> to, radius |-> radius,
     extent |-> extent, width |-> t.pensize, color |-> t.pencolor]

PenUp(t) == [t EXCEPT !.down = FALSE]
PenDown(t) == [t EXCEPT !.down = TRUE]
IsDown(t) == t.down
Position(t) == t.pos
Heading(t) == t.hdg

Goto(t, p) ==
    [t EXCEPT !.pos = p,
              !.items = IF t.down /\ p # t.pos THEN Append(@, Line(t, p)) ELSE @]

Forward(t, distance) ==
    Goto(t, [t.pos EXCEPT !.off = Append(@, <<"forward", distance, t.hdg>>)])

Rotate(t, angle) == [t EXCEPT !.hdg = (@ + angle) % FullCircle]

Left(t, angle) == Rotate(t, angle)

\* setheading turns by the signed difference, normalised to [-180, 180).
SetHeading(t, to_angle) ==
    LET angle == to_angle - Heading(t)
        half  == FullCircle \div 2
    IN  Rotate(t, ((angle + half) % FullCircle) - half)

\* circle(radius, extent): the pen travels the arc (a polygon of chords) and
\* ends turned by extent.
Circle(t, radius, extent) ==
    LET to == [t.pos EXCEPT !.off = Append(@, <<"arc", radius, extent, t.hdg>>)]
    IN  [Rotate(t, extent) EXCEPT
            !.pos = to,
            !.items = IF t.down THEN Append(@, Arc(t, to, radius, extent)) ELSE @]

\* a variant that leaves the pen size alone
PenSize_Ignored(t, width) == t

PenSize(t, width) == [t EXCEPT !.pensize = width]

\* pencolor(r, g, b) stores the colour string "#rrggbb": six hex digits.
ColorStr(c) ==
    <<c[1] \div 16, c[1] % 16, c[2] \div 16, c[2] % 16, c[3] \div 16, c[3] % 16>>
ColorOk(c, cmode) == \A k \in 1..3 : 0 <= c[k] /\ c[k] <= cmode
PenColor(t, c) == [t EXCEPT !.pencolor = ColorStr(c)]

HideTurtle(t) == [t EXCEPT !.shown = FALSE]
Clear(t) == [t EXCEPT !.items = <<>>]
Home(t) == SetHeading(Goto(t, Origin), 0)

Pose(t) == [pos |-> t.pos, hdg |-> t.hdg, down |-> t.down]
Style(t) == [pensize |-> t.pensize, pencolor |-> t.pencolor]

----------------------------------------------------------------------------
(* draw_figure.draw, lines 12-68 *)

\* a variant without the upper bound of base_elements
ValidArgs_NoUpperBound(a) ==
    /\ 3 <= a.base_elements
    /\ 1 <= a.line_width /\ a.line_width <= 5

ValidArgs(a) ==
    /\ 3 <= a.base_elements /\ a.base_elements <= 15
    /\ 1 <= a.line_width /\ a.line_width <= 5

\* The call itself: binds the keyword arguments and remembers the caller.
CallDraw(a, returnTo) ==
    /\ args' = a
    /\ ret' = returnTo
    /\ entry' = artist
    /\ petals' = <<>>
    /\ pc' = "draw_42"
    /\ UNCHANGED <<artist, exc, original_state, rotation_angle, index, petal,
                   petal_entry>>

\* A step of draw that only acts on the pen.
PenStep(from, to, t) ==
    /\ pc = from
    /\ artist' = t
    /\ pc' = to
    /\ UNCHANGED <<colormode, ret, exc, drawVars, mainVars, runs>>

\* lines 42-45: both range checks, before anything else
DrawValidate ==
    /\ pc = "draw_42"
    /\ IF ValidArgs(args)
          THEN pc' = "draw_47" /\ exc' = exc
          ELSE pc' = "raised" /\ exc' = "ValueError"
    /\ UNCHANGED <<artist, colormode, ret, drawVars, mainVars, runs>>

\* line 47
DrawSaveState ==
    /\ pc = "draw_47"
    /\ original_state' = <<IsDown(artist), Position(artist), Heading(artist)>>
    /\ pc' = "draw_49"
    /\ UNCHANGED <<artist, colormode, ret, exc, args, rotation_angle, index,
                   petal, entry, petal_entry, petals, mainVars, runs>>

DrawPenUp == PenStep("draw_49", "draw_50", PenUp(artist))
DrawGotoPosition == PenStep("draw_50", "draw_51", Goto(artist, Point(args.position)))
DrawPenDown == PenStep("draw_51", "draw_52", PenDown(artist))
DrawPenSize == PenStep("draw_52", "draw_53", PenSize(artist, args.line_width))

\* line 53: turtle rejects a channel outside 0..colormode
DrawPenColor ==
    /\ pc = "draw_53"
    /\ IF ColorOk(args.color, colormode)
          THEN artist' = PenColor(artist, args.color) /\ pc' = "draw_55" /\ exc' = exc
          ELSE artist' = artist /\ pc' = "raised" /\ exc' = "TurtleGraphicsError"
    /\ UNCHANGED <<colormode, ret, drawVars, mainVars, runs>>

\* line 55, and the creation of the range iterator of line 57 (index is the
\* value it yielded last, -1 before the first)
DrawRotationAngle ==
    /\ pc = "draw_55"
    /\ rotation_angle' = FullCircle \div args.base_elements
    /\ index' = -1
    /\ pc' = "draw_57"
    /\ UNCHANGED <<artist, colormode, ret, exc, args, original_state, petal,
                   entry, petal_entry, petals, mainVars, runs>>

\* line 57: the loop head, for index in range(base_elements)
DrawLoop ==
    /\ pc = "draw_57"
    /\ IF index + 1 < args.base_elements
          THEN index' = index + 1 /\ pc' = "draw_58"
          ELSE index' = index /\ pc' = "draw_61"
    /\ UNCHANGED <<artist, colormode, ret, exc, args, original_state,
                   rotation_angle, petal, entry, petal_entry, petals,
                   mainVars, runs>>

\* a variant that turns relative to the current heading
DrawSetHeading_Relative ==
    PenStep("draw_58", "draw_59", Left(artist, rotation_angle * index))

DrawSetHeading ==
    PenStep("draw_58", "draw_59", SetHeading(artist, rotation_angle * index))

\* The call of _draw_petal: binds size and remembers the caller.
CallPetal(size, returnTo) ==
    /\ petal' = [petal EXCEPT !.size = size, !.ret = returnTo]
    /\ petal_entry' = artist
    /\ pc' = "petal_82"

\* line 59
DrawCallPetal ==
    /\ pc = "draw_59"
    /\ CallPetal(args.size, "draw_57")
    /\ petals' = Append(petals, Pose(artist))
    /\ UNCHANGED <<artist, colormode, ret, exc, args, original_state,
                   rotation_angle, index, entry, mainVars, runs>>

DrawHideTurtle == PenStep("draw_61", "draw_64", HideTurtle(artist))
DrawRestorePenUp == PenStep("draw_64", "draw_65", PenUp(artist))
DrawRestoreGoto == PenStep("draw_65", "draw_66", Goto(artist, original_state[2]))
\* a variant that does not reset the heading
DrawRestoreHeading_Omitted == PenStep("draw_66", "draw_67", artist)

DrawRestoreHeading ==
    PenStep("draw_66", "draw_67", SetHeading(artist, original_state[3]))

\* lines 67-68, and the return to the caller
DrawRestorePenDown ==
    /\ pc = "draw_67"
    /\ artist' = IF original_state[1] THEN PenDown(artist) ELSE artist
    /\ pc' = ret
    /\ UNCHANGED <<colormode, ret, exc, drawVars, mainVars, runs>>

----------------------------------------------------------------------------
(* draw_figure._draw_petal, lines 71-98 *)

\* lines 82-84
PetalSaveState ==
    /\ pc = "petal_82"
    /\ petal' = [petal EXCEPT !.start_position = Position(artist),
                              !.start_heading = Heading(artist),
                              !.was_down = IsDown(artist)]
    /\ pc' = "petal_86"
    /\ UNCHANGED <<artist, colormode, ret, exc, args, original_state,
                   rotation_angle, index, entry, petal_entry, petals,
                   mainVars, runs>>

\* a variant that keeps the pen down while it moves out
PetalPenUp_Omitted == PenStep("petal_86", "petal_87", artist)

PetalPenUp == PenStep("petal_86", "petal_87", PenUp(artist))
PetalForward == PenStep("petal_87", "petal_88", Forward(artist, petal.size))
PetalPenDown == PenStep("petal_88", "petal_89", PenDown(artist))
PetalLeft60 == PenStep("petal_89", "petal_90", Left(artist, Deg(60)))
PetalFirstArc == PenStep("petal_90", "petal_91", Circle(artist, petal.size, Deg(120)))
PetalLeft120 == PenStep("petal_91", "petal_92", Left(artist, Deg(120)))
PetalSecondArc == PenStep("petal_92", "petal_94", Circle(artist, petal.size, Deg(120)))
PetalRestorePenUp == PenStep("petal_94", "petal_95", PenUp(artist))
PetalRestoreGoto == PenStep("petal_95", "petal_96", Goto(artist, petal.start_position))
PetalRestoreHeading ==
    PenStep("petal_96", "petal_97", SetHeading(artist, petal.start_heading))

\* a variant that lowers the pen whatever it was
PetalRestorePenDown_Always ==
    /\ pc = "petal_97"
    /\ artist' = PenDown(artist)
    /\ pc' = petal.ret
    /\ UNCHANGED <<colormode, ret, exc, drawVars, mainVars, runs>>

\* lines 97-98, and the return to the caller
PetalRestorePenDown ==
    /\ pc = "petal_97"
    /\ artist' = IF petal.was_down THEN PenDown(artist) ELSE artist
    /\ pc' = petal.ret
    /\ UNCHANGED <<colormode, ret, exc, drawVars, mainVars, runs>>

DrawStep ==
    \/ DrawValidate \/ DrawSaveState \/ DrawPenUp \/ DrawGotoPosition
    \/ DrawPenDown \/ DrawPenSize \/ DrawPenColor \/ DrawRotationAngle
    \/ DrawLoop \/ DrawSetHeading \/ DrawCallPetal \/ DrawHideTurtle
    \/ DrawRestorePenUp \/ DrawRestoreGoto \/ DrawRestoreHeading
    \/ DrawRestorePenDown
    \/ PetalSaveState \/ PetalPenUp \/ PetalForward \/ PetalPenDown
    \/ PetalLeft60 \/ PetalFirstArc \/ PetalLeft120 \/ PetalSecondArc
    \/ PetalRestorePenUp \/ PetalRestoreGoto \/ PetalRestoreHeading
    \/ PetalRestorePenDown

----------------------------------------------------------------------------
(* Values of the variables a specification does not use *)

NoArgs == [base_elements |-> 0, size |-> 0, color |-> <<0, 0, 0>>,
           line_width |-> 0, position |-> <<0, 0>>]
NoPetal == [start_position |-> Origin, start_heading |-> 0, was_down |-> FALSE,
            size |-> 0, ret |-> "idle"]
Black == ColorStr(<<0, 0, 0>>)

\* turtle.Turtle(): at the origin, heading east, pen down, width 1, black
NewTurtle ==
    [pos |-> Origin, hdg |-> 0, down |-> TRUE, pensize |-> 1,
     pencolor |-> Black, shown |-> TRUE, items |-> <<>>]

DrawInit ==
    /\ ret = "idle"
    /\ exc = "None"
    /\ args = NoArgs
    /\ original_state = <<FALSE, Origin, 0>>
    /\ rotation_angle = 0
    /\ index = -1
    /\ petal = NoPetal
    /\ petals = <<>>

NoPath == [parent |-> "", prefix |-> "", digits |-> <<>>, suffix |-> ""]
NoSave == [path |-> NoPath, eps_path |-> NoPath, ret |-> "idle"]

MainIdle ==
    /\ seed = <<>>
    /\ rng = 0
    /\ Image = "None"
    /\ color_mode_set = TRUE
    /\ img_index = 0
    /\ parameters = NoArgs
    /\ last_parameters = <<>>
    /\ files = <<>>
    /\ printed = <<>>
    /\ canvas = <<>>
    /\ save = NoSave
    /\ trace = <<>>

RunsIdle == runs = <<>>

----------------------------------------------------------------------------
(* Spec: one call of draw on a pen in any pose, with any arguments *)

\* program.py draws with the colour mode set and a hidden turtle (lines 87-95),
\* one composition after another on the same pen; the pose, size and colour
\* of the pen at the call are free, and it may have drawn before.
HeadingStep == Deg(200)
EarlierItems ==
    <<Line([NewTurtle EXCEPT !.pensize = 3], Point(<<30, -40>>))>>
InitialArtists ==
    { [NewTurtle EXCEPT !.pos = IF k % 2 = 0 THEN Origin ELSE Point(<<30, -40>>),
                        !.hdg = (k * HeadingStep) % FullCircle,
                        !.down = d,
                        !.pensize = 1 + 2 * (k % 2),
                        !.pencolor = ColorStr(<<255 * (k % 2), 0, 0>>),
                        !.shown = FALSE,
                        !.items = IF k % 2 = 0 THEN <<>> ELSE EarlierItems]
      : k \in 0..(NumHeadings - 1), d \in BOOLEAN }

Sizes == { 80 * k : k \in 1..NumSizes }
Placements ==
    { [color |-> <<0, 120, 255>>, position |-> <<-260, 60>>],
      [color |-> <<60, 200, 120>>, position |-> <<0, 0>>],
      [color |-> <<0, 120, 256>>, position |-> <<260, 80>>] }
CallArgs ==
    { [base_elements |-> n, size |-> s, color |-> p.color, line_width |-> w,
       position |-> p.position]
      : n \in 0..18, s \in Sizes, w \in -1..7, p \in Placements }

Init ==
    /\ artist \in InitialArtists
    /\ entry = artist
    /\ petal_entry = artist
    /\ colormode = 255
    /\ pc = "idle"
    /\ DrawInit /\ MainIdle /\ RunsIdle

Call ==
    /\ pc = "idle"
    /\ \E a \in CallArgs : CallDraw(a, "returned")
    /\ UNCHANGED <<colormode, mainVars, runs>>

\* _draw_petal called on its own, on the pen as it is
CallPetalAlone ==
    /\ pc = "idle"
    /\ \E s \in Sizes : CallPetal(s, "petal_returned")
    /\ UNCHANGED <<artist, colormode, ret, exc, args, original_state,
                   rotation_angle, index, entry, petals, mainVars, runs>>

Next == Call \/ CallPetalAlone \/ DrawStep

Spec == Init /\ [][Next]_vars

----------------------------------------------------------------------------
(* Properties of draw and _draw_petal, checked under Spec *)

InRange(a) ==
    /\ a.base_elements \in 3..15
    /\ a.line_width \in 1..5
    /\ a.size > 0

ColorTuple(h) == <<16 * h[1] + h[2], 16 * h[3] + h[4], 16 * h[5] + h[6]>>

\* The items draw has added to the pen's since it was called.
NewItems == SubSeq(artist.items, Len(entry.items) + 1, Len(artist.items))

\* C1: when draw returns, the pen's position, heading and pen-down state are
\* those it had when draw was called, for every valid configuration and
\* every pose at the call.
C1_DrawPoseNeutral ==
    pc = "returned" => InRange(args) /\ Pose(artist) = Pose(entry)

C1_Witness ==
    /\ pc = "returned"
    /\ entry.down /\ entry.hdg # 0 /\ entry.pos # Origin
    /\ entry.pos # Point(args.position)
    /\ Len(NewItems) > 0

\* C2: a base_elements outside 3..15 or a line_width outside 1..5 ends the
\* call with ValueError before any pen operation: the pen (position, heading,
\* pen-down state, colour, width, items) is as it was at the call.
C2_InvalidRejected ==
    (pc # "idle" /\ ret = "returned"
        /\ (args.base_elements \notin 3..15 \/ args.line_width \notin 1..5))
    => /\ pc \in {"draw_42", "raised"}
       /\ pc = "raised" => exc = "ValueError"
       /\ artist = entry

C2_Witness ==
    /\ pc = "raised" /\ exc = "ValueError"
    /\ args.base_elements = 16 /\ args.line_width \in 1..5
    /\ entry.down

\* _draw_petal has just returned, to draw's loop or to its lone caller.
PetalReturned ==
    \/ pc = "petal_returned"
    \/ pc = "draw_57" /\ index >= 0

\* C3: _draw_petal returns with position, heading and pen-down state as at
\* its call, for every size > 0 and every pose; before it restores them the
\* pen is away from where it started and turned by 60 + 120 + 120 + 120 =
\* 420 degrees, and the pen was lifted and lowered on the way.
C3_PetalPoseNeutral ==
    /\ PetalReturned => petal.size > 0 /\ Pose(artist) = Pose(petal_entry)
    /\ pc = "petal_88" => ~artist.down /\ artist.pos # petal_entry.pos
    /\ pc = "petal_94" =>
          /\ artist.down
          /\ artist.pos # petal_entry.pos
          /\ artist.hdg = (petal_entry.hdg + Deg(420)) % FullCircle
          /\ artist.hdg # petal_entry.hdg

C3_Witness ==
    /\ pc = "petal_returned"
    /\ ~petal_entry.down /\ petal_entry.hdg # 0 /\ petal_entry.pos # Origin
    /\ Len(artist.items) = Len(petal_entry.items) + 2

\* (360 / n) * i degrees
PetalHeading(n, i) == (FullCircle * i) \div n

\* C7: draw renders exactly base_elements petals, and the petal of index i
\* starts at the center with absolute heading (360 / base_elements) * i,
\* whatever the heading at the call and the headings earlier petals left.
C7_PetalHeadings ==
    /\ \A k \in DOMAIN petals :
          /\ petals[k].hdg = PetalHeading(args.base_elements, k - 1)
          /\ (FullCircle * (k - 1)) % args.base_elements = 0
          /\ petals[k].pos = Point(args.position)
    /\ pc = "returned" => Len(petals) = args.base_elements

C7_Witness ==
    /\ pc = "returned"
    /\ args.base_elements = 3
    /\ entry.hdg # 0
    /\ <<petals[1].hdg, petals[2].hdg, petals[3].hdg>> = <<0, Deg(120), Deg(240)>>

\* C9: after a draw that returned, the pen's colour and width are those of
\* the configuration just drawn, whatever they were at the call.
C9_StylePersists ==
    pc = "returned" =>
        /\ artist.pensize = args.line_width
        /\ ColorTuple(artist.pencolor) = args.color

C9_Witness ==
    /\ pc = "returned"
    /\ entry.pensize = 3 /\ args.line_width = 2
    /\ ColorTuple(entry.pencolor) = <<255, 0, 0>>
    /\ args.color = <<0, 120, 255>>

\* The pen is about to travel: lines 50, 87, 95 and 65.
TravelMoves == {"draw_50", "petal_87", "petal_95", "draw_65"}

\* C10: the pen is up at every travel move (to the center, out by size, back
\* to the center, back to the original position), so draw adds no straight
\* line: what it has added when it returns are 2 * base_elements arcs of
\* radius size.
C10_OnlyArcs ==
    /\ pc \in TravelMoves => ~artist.down
    /\ \A k \in DOMAIN NewItems : NewItems[k].kind = "arc"
    /\ pc = "returned" =>
          /\ Len(NewItems) = 2 * args.base_elements
          /\ \A k \in DOMAIN NewItems :
                /\ NewItems[k].radius = args.size
                /\ NewItems[k].extent = Deg(120)

C10_Witness ==
    /\ pc = "returned"
    /\ entry.down /\ entry.pos # Point(args.position)
    /\ Len(entry.items) > 0
    /\ args.base_elements = 15
    /\ Len(NewItems) = 30

----------------------------------------------------------------------------
(* gen_program.py: constants, lines 36-46 *)

COLOR_MODE == 255
BASE_ELEMENTS_RANGE == <<3, 15>>
LINE_WIDTH_RANGE == <<1, 5>>
SIZE_RANGE == <<80, 180>>
POSITION_LIMIT_X == 450
POSITION_LIMIT_Y == 300
\* IMAGE_COUNT is 100 in the program; the model runs MaxImages iterations.
IMAGE_COUNT == MaxImages

----------------------------------------------------------------------------
(* random.Random: a deterministic generator.  Its state after seeding and   *)
(* after each draw is a function of the state before; randint(a, b)         *)
(* returns a value of a..b computed from the state, or raises ValueError    *)
(* when the range is empty.  The Mersenne Twister's 19937 bits are          *)
(* reduced to RngMod states.                                                *)

RngStates == 0..(RngMod - 1)
RngStep(r) == (5 * r + 3) % RngMod
SeedState(n) == n % RngMod

RandInt(r, a, b) ==
    [rng |-> RngStep(r),
     value |-> a + (RngStep(r) * (b - a)) \div (RngMod - 1),
     ok |-> a <= b]

\* a variant that never seeds the instance: random.Random() as constructed
SeedRng_NotSeeded(sd, entropy) == entropy

\* lines 131-133: random.Random() seeds itself from the operating system's
\* entropy; rng.seed(args.seed) replaces that when a seed was given.
SeedRng(sd, entropy) == IF sd = <<>> THEN entropy ELSE SeedState(sd[1])

Max(a, b) == IF a >= b THEN a ELSE b

\* a variant that forgets the size of the figure
MaxCoordinate_NoSize(limit, size) == limit

\* lines 108-109
MaxCoordinate(limit, size) == Max(limit - size, 0)

\* generate_parameters, lines 100-121: the draws in the order of the code
GenerateParameters(r) ==
    LET base_elements == RandInt(r, BASE_ELEMENTS_RANGE[1], BASE_ELEMENTS_RANGE[2])
        size  == RandInt(base_elements.rng, SIZE_RANGE[1], SIZE_RANGE[2])
        red   == RandInt(size.rng, 0, 255)
        green == RandInt(red.rng, 0, 255)
        blue  == RandInt(green.rng, 0, 255)
        line_width == RandInt(blue.rng, LINE_WIDTH_RANGE[1], LINE_WIDTH_RANGE[2])
        max_x == MaxCoordinate(POSITION_LIMIT_X, size.value)
        max_y == MaxCoordinate(POSITION_LIMIT_Y, size.value)
        x == RandInt(line_width.rng, -max_x, max_x)
        y == RandInt(x.rng, -max_y, max_y)
    IN  [rng |-> y.rng,
         ok |-> /\ base_elements.ok /\ size.ok /\ red.ok /\ green.ok
                /\ blue.ok /\ line_width.ok /\ x.ok /\ y.ok,
         parameters |->
            [base_elements |-> base_elements.value,
             size |-> size.value,
             color |-> <<red.value, green.value, blue.value>>,
             line_width |-> line_width.value,
             position |-> <<x.value, y.value>>]]

----------------------------------------------------------------------------
(* Paths and the formatting of the index *)

RECURSIVE Digits(_)
Digits(n) == IF n < 10 THEN <<n>> ELSE Append(Digits(n \div 10), n % 10)

RECURSIVE ZeroPad(_, _)
ZeroPad(d, width) == IF Len(d) >= width THEN d ELSE ZeroPad(<<0>> \o d, width)

\* f"{index:03d}"
Format03d(n) == ZeroPad(Digits(n), 3)

\* line 167: OUTPUT_DIR / f"img_{index:03d}.png"
ImagePath(i) ==
    [parent |-> "task2/out", prefix |-> "img_", digits |-> Format03d(i),
     suffix |-> ".png"]

SCREENSHOT_PATH ==
    [parent |-> "task2", prefix |-> "screenshot", digits |-> <<>>, suffix |-> ".png"]

WithSuffix(path, suffix) == [path EXCEPT !.suffix = suffix]

WriteFile(fs, path, content) ==
    [q \in (DOMAIN fs) \cup {path} |-> IF q = path THEN content ELSE fs[q]]
Unlink(fs, path) == [q \in (DOMAIN fs) \ {path} |-> fs[q]]

----------------------------------------------------------------------------
(* save_canvas_png, gen_program.py lines 61-82 *)

CallSave(path, returnTo) ==
    /\ save' = [path |-> path, eps_path |-> NoPath, ret |-> returnTo]
    /\ pc' = "save_64"

\* lines 64-67: the canvas is written as PostScript beside the target
SavePostscript ==
    /\ pc = "save_64"
    /\ save' = [save EXCEPT !.eps_path = WithSuffix(save.path, ".eps")]
    /\ files' = WriteFile(files, WithSuffix(save.path, ".eps"),
                          [format |-> "eps", items |-> canvas])
    /\ trace' = Append(trace, [op |-> "export", index |-> img_index,
                              path |-> save.path])
    /\ pc' = "save_69"
    /\ UNCHANGED <<artist, colormode, ret, exc, drawVars, seed, rng, Image,
                   color_mode_set, img_index, parameters, last_parameters,
                   printed, canvas, runs>>

\* a variant that goes on to Image.open without Pillow
SaveFallback_Missing ==
    /\ pc = "save_69"
    /\ IF Image = "None"
          THEN pc' = "raised" /\ exc' = "AttributeError"
          ELSE pc' = "save_75" /\ exc' = exc
    /\ UNCHANGED <<artist, colormode, ret, drawVars, mainVars, runs>>

\* lines 69-73: without Pillow the PostScript file is kept and reported
SaveFallback ==
    /\ pc = "save_69"
    /\ IF Image = "None"
          THEN /\ printed' = Append(printed, [text |-> "Saved EPS fallback",
                                              about |-> save.eps_path])
               /\ pc' = save.ret
          ELSE /\ printed' = printed
               /\ pc' = "save_75"
    /\ UNCHANGED <<artist, colormode, ret, exc, drawVars, seed, rng, Image,
                   color_mode_set, img_index, parameters, last_parameters,
                   files, canvas, save, trace, runs>>

\* lines 75-79: the PostScript file is read, cropped and saved as PNG
SaveConvert ==
    /\ pc = "save_75"
    /\ files' = WriteFile(files, save.path,
                          [format |-> "png", items |-> files[save.eps_path].items])
    /\ pc' = "save_81"
    /\ UNCHANGED <<artist, colormode, ret, exc, drawVars, seed, rng, Image,
                   color_mode_set, img_index, parameters, last_parameters,
                   printed, canvas, save, trace, runs>>

\* lines 81-82, and the return
SaveUnlink ==
    /\ pc = "save_81"
    /\ files' = IF save.eps_path \in DOMAIN files
                   THEN Unlink(files, save.eps_path) ELSE files
    /\ pc' = save.ret
    /\ UNCHANGED <<artist, colormode, ret, exc, drawVars, seed, rng, Image,
                   color_mode_set, img_index, parameters, last_parameters,
                   printed, canvas, save, trace, runs>>

SaveStep == SavePostscript \/ SaveFallback \/ SaveConvert \/ SaveUnlink

----------------------------------------------------------------------------
(* gen_program.main, lines 124-174 *)

Event(op, path) == [op |-> op, index |-> img_index, path |-> path]

\* lines 127-133
MainSeed ==
    /\ pc = "main_127"
    /\ \E entropy \in RngStates : rng' = SeedRng(seed, entropy)
    /\ pc' = "main_135"
    /\ UNCHANGED <<artist, colormode, ret, exc, drawVars, seed, Image,
                   color_mode_set, img_index, parameters, last_parameters,
                   files, printed, canvas, save, trace, runs>>

\* line 135: ensure_colormode_255, lines 52-58
MainEnsureColormode ==
    /\ pc = "main_135"
    /\ colormode' = IF color_mode_set THEN colormode ELSE COLOR_MODE
    /\ color_mode_set' = TRUE
    /\ pc' = "main_137"
    /\ UNCHANGED <<artist, ret, exc, drawVars, seed, rng, Image, img_index,
                   parameters, last_parameters, files, printed, canvas, save,
                   trace, runs>>

\* lines 137-148: the screen (tracer off), the hidden turtle, no parameters yet
MainSetup ==
    /\ pc = "main_137"
    /\ artist' = HideTurtle(NewTurtle)
    /\ canvas' = <<>>
    /\ last_parameters' = <<>>
    /\ pc' = "main_150"
    /\ UNCHANGED <<colormode, ret, exc, drawVars, seed, rng, Image,
                   color_mode_set, img_index, parameters, files, printed,
                   save, trace, runs>>

\* line 150: for index in range(1, IMAGE_COUNT + 1)
MainLoop ==
    /\ pc = "main_150"
    /\ IF img_index + 1 < IMAGE_COUNT + 1
          THEN img_index' = img_index + 1 /\ pc' = "main_151"
          ELSE img_index' = img_index /\ pc' = "main_169"
    /\ UNCHANGED <<artist, colormode, ret, exc, drawVars, seed, rng, Image,
                   color_mode_set, parameters, last_parameters, files,
                   printed, canvas, save, trace, runs>>

\* a variant that keeps the earlier drawings
MainClear_Omitted ==
    /\ pc = "main_151"
    /\ trace' = Append(trace, Event("clear", NoPath))
    /\ pc' = "main_152"
    /\ UNCHANGED <<artist, colormode, ret, exc, drawVars, seed, rng, Image,
                   color_mode_set, img_index, parameters, last_parameters,
                   files, printed, canvas, save, runs>>

\* line 151: the turtle's items are deleted from the canvas
MainClear ==
    /\ pc = "main_151"
    /\ artist' = Clear(artist)
    /\ canvas' = <<>>
    /\ trace' = Append(trace, Event("clear", NoPath))
    /\ pc' = "main_152"
    /\ UNCHANGED <<colormode, ret, exc, drawVars, seed, rng, Image,
                   color_mode_set, img_index, parameters, last_parameters,
                   files, printed, save, runs>>

MainPenUp == PenStep("main_152", "main_153", PenUp(artist))
MainHome == PenStep("main_153", "main_154", Home(artist))
MainPenDown == PenStep("main_154", "main_156", PenDown(artist))

\* lines 156-157
MainGenerate ==
    /\ pc = "main_156"
    /\ LET g == GenerateParameters(rng)
       IN  /\ rng' = g.rng
           /\ IF g.ok
                 THEN /\ parameters' = g.parameters
                      /\ last_parameters' = <<g.parameters>>
                      /\ trace' = Append(trace, Event("sample", NoPath))
                      /\ pc' = "main_159"
                      /\ exc' = exc
                 ELSE /\ UNCHANGED <<parameters, last_parameters, trace>>
                      /\ pc' = "raised"
                      /\ exc' = "ValueError"
    /\ UNCHANGED <<artist, colormode, ret, drawVars, seed, Image,
                   color_mode_set, img_index, files, printed, canvas, save,
                   runs>>

\* lines 159-163
MainPrint ==
    /\ pc = "main_159"
    /\ printed' = Append(printed, [text |-> Format03d(img_index),
                                   about |-> parameters])
    /\ pc' = "main_165"
    /\ UNCHANGED <<artist, colormode, ret, exc, drawVars, seed, rng, Image,
                   color_mode_set, img_index, parameters, last_parameters,
                   files, canvas, save, trace, runs>>

\* line 165
MainCallDraw ==
    /\ pc = "main_165"
    /\ CallDraw(parameters, "main_166")
    /\ trace' = Append(trace, Event("draw", NoPath))
    /\ UNCHANGED <<colormode, seed, rng, Image, color_mode_set, img_index,
                   parameters, last_parameters, files, printed, canvas, save,
                   runs>>

\* line 166: screen.update() brings the canvas up to date (tracer is off)
MainUpdate ==
    /\ pc = "main_166"
    /\ canvas' = artist.items
    /\ pc' = "main_167"
    /\ UNCHANGED <<artist, colormode, ret, exc, drawVars, seed, rng, Image,
                   color_mode_set, img_index, parameters, last_parameters,
                   files, printed, save, trace, runs>>

\* line 167
MainCallSave ==
    /\ pc = "main_167"
    /\ CallSave(ImagePath(img_index), "main_150")
    /\ UNCHANGED <<artist, colormode, ret, exc, drawVars, seed, rng, Image,
                   color_mode_set, img_index, parameters, last_parameters,
                   files, printed, canvas, trace, runs>>

\* lines 169-170
MainAfterLoop ==
    /\ pc = "main_169"
    /\ IF last_parameters # <<>>
          THEN canvas' = artist.items /\ pc' = "main_171"
          ELSE canvas' = canvas /\ pc' = "main_173"
    /\ UNCHANGED <<artist, colormode, ret, exc, drawVars, seed, rng, Image,
                   color_mode_set, img_index, parameters, last_parameters,
                   files, printed, save, trace, runs>>

\* line 171
MainCallSaveScreenshot ==
    /\ pc = "main_171"
    /\ CallSave(SCREENSHOT_PATH, "main_173")
    /\ UNCHANGED <<artist, colormode, ret, exc, drawVars, seed, rng, Image,
                   color_mode_set, img_index, parameters, last_parameters,
                   files, printed, canvas, trace, runs>>

\* lines 173-174
MainBye == PenStep("main_173", "done", HideTurtle(artist))

MainStep ==
    \/ MainSeed \/ MainEnsureColormode \/ MainSetup \/ MainLoop \/ MainClear
    \/ MainPenUp \/ MainHome \/ MainPenDown \/ MainGenerate \/ MainPrint
    \/ MainCallDraw \/ MainUpdate \/ MainCallSave \/ MainAfterLoop
    \/ MainCallSaveScreenshot \/ MainBye

----------------------------------------------------------------------------
(* BatchSpec: one run of gen_program.py, with or without a seed, with or    *)
(* without Pillow                                                           *)

Seeds == {<<>>} \cup { <<n>> : n \in 0..MaxSeed }

BatchInit ==
    /\ seed \in Seeds
    /\ Image \in {"None", "PIL"}
    \* lines 16-22: the notice printed when the import fails
    /\ printed = IF Image = "None"
                    THEN <<[text |-> "Pillow is not installed", about |-> NoPath]>>
                    ELSE <<>>
    /\ pc = "main_127"
    /\ colormode = 1
    /\ color_mode_set = FALSE
    /\ artist = NewTurtle
    /\ entry = NewTurtle
    /\ petal_entry = NewTurtle
    /\ rng = 0
    /\ img_index = 0
    /\ parameters = NoArgs
    /\ last_parameters = <<>>
    /\ files = <<>>
    /\ canvas = <<>>
    /\ save = NoSave
    /\ trace = <<>>
    /\ DrawInit /\ RunsIdle

BatchNext == MainStep \/ DrawStep \/ SaveStep

BatchSpec == BatchInit /\ [][BatchNext]_vars

----------------------------------------------------------------------------
(* TwinSpec: two independent runs of gen_program.py started with the same   *)
(* command line, each reduced to what touches its random source: the        *)
(* seeding (lines 131-133) and the calls of generate_parameters (line 156)  *)

Twins == {1, 2}

TwinInit ==
    /\ seed \in Seeds
    /\ runs = [r \in Twins |-> [pc |-> "main_127", rng |-> 0, sampled |-> <<>>,
                                exc |-> "None"]]
    /\ pc = "idle"
    /\ colormode = 1
    /\ artist = NewTurtle
    /\ entry = NewTurtle
    /\ petal_entry = NewTurtle
    /\ DrawInit
    /\ rng = 0
    /\ Image = "None"
    /\ color_mode_set = FALSE
    /\ img_index = 0
    /\ parameters = NoArgs
    /\ last_parameters = <<>>
    /\ files = <<>>
    /\ printed = <<>>
    /\ canvas = <<>>
    /\ save = NoSave
    /\ trace = <<>>

TwinSeed(r) ==
    /\ runs[r].pc = "main_127"
    /\ \E entropy \in RngStates :
          runs' = [runs EXCEPT ![r].rng = SeedRng(seed, entropy),
                               ![r].pc = "main_150"]
    /\ UNCHANGED <<artist, colormode, pc, ret, exc, drawVars, mainVars>>

TwinSample(r) ==
    /\ runs[r].pc = "main_150"
    /\ LET g == GenerateParameters(runs[r].rng)
           n == Len(runs[r].sampled)
       IN  runs' = [runs EXCEPT
                ![r].rng = IF n < IMAGE_COUNT THEN g.rng ELSE @,
                ![r].sampled = IF n < IMAGE_COUNT /\ g.ok
                                  THEN Append(@, g.parameters) ELSE @,
                ![r].exc = IF n < IMAGE_COUNT /\ ~g.ok THEN "ValueError" ELSE @,
                ![r].pc = IF n >= IMAGE_COUNT THEN "done"
                          ELSE IF g.ok THEN "main_150" ELSE "raised"]
    /\ UNCHANGED <<artist, colormode, pc, ret, exc, drawVars, mainVars>>

TwinNext == \E r \in Twins : TwinSeed(r) \/ TwinSample(r)

TwinSpec == TwinInit /\ [][TwinNext]_vars

----------------------------------------------------------------------------
(* Properties of the sampler and of the batch run *)

Abs(v) == IF v < 0 THEN -v ELSE v
Min(a, b) == IF a <= b THEN a ELSE b

\* A coordinate of the center against a half-extent of the canvas.
AxisWithin(c, limit, size) ==
    IF size > limit THEN c = 0 ELSE Abs(c) <= limit - size

\* C4: with half-extents (450, 300), whatever the state of the random
\* source, the sampled size is in 80..180 and the center keeps the figure
\* within the canvas on both axes (or is 0 on an axis the size exceeds); no
\* sampled range is empty, so generate_parameters never raises.
C4_CenterWithinCanvas ==
    /\ exc = "None" /\ pc # "raised"
    /\ pc = "main_156" => GenerateParameters(rng).ok
    /\ parameters # NoArgs =>
          /\ parameters.size \in 80..180
          /\ AxisWithin(parameters.position[1], 450, parameters.size)
          /\ AxisWithin(parameters.position[2], 300, parameters.size)

C4_Witness ==
    /\ pc = "main_159"
    /\ seed = <<>>
    /\ Abs(parameters.position[1]) = 450 - parameters.size

\* C5: two independent runs started with the same seed sample the same
\* sequence of configurations: as far as both have got, their
\* configurations agree one by one.
C5_SameSeedSameConfigs ==
    seed # <<>> =>
        \A k \in 1..Min(Len(runs[1].sampled), Len(runs[2].sampled)) :
            runs[1].sampled[k] = runs[2].sampled[k]

C5_Witness ==
    /\ seed # <<>>
    /\ Len(runs[1].sampled) = IMAGE_COUNT
    /\ Len(runs[2].sampled) = IMAGE_COUNT
    /\ runs[1].sampled[1] # runs[1].sampled[2]
    /\ runs[1].sampled = runs[2].sampled

\* The exports begun so far, and those that have returned.
Exports == { k \in DOMAIN trace : trace[k].op = "export" }
InSave == pc \in {"save_64", "save_69", "save_75", "save_81"}
ExportsReturned == { k \in Exports : k < Len(trace) \/ ~InSave }

Sibling(path) ==
    { q \in DOMAIN files : /\ q.parent = path.parent
                           /\ q.prefix = path.prefix
                           /\ q.digits = path.digits
                           /\ q.suffix = ".eps" }

\* C6: without Pillow every export writes the PostScript file beside the
\* target (same directory, same stem), reports it and returns without
\* raising, and no PNG is written; the run goes on, and when it is done it
\* has exported every iteration and the final screenshot.
C6_FallbackWithoutPillow ==
    Image = "None" =>
        /\ exc = "None" /\ pc # "raised"
        /\ pc # "done" => ENABLED BatchNext
        /\ \A k \in Exports :
              /\ Sibling(trace[k].path) # {}
              /\ \A q \in Sibling(trace[k].path) : files[q].format = "eps"
              /\ trace[k].path \notin DOMAIN files
        /\ \A k \in ExportsReturned :
              \E j \in DOMAIN printed :
                  /\ printed[j].text = "Saved EPS fallback"
                  /\ printed[j].about \in Sibling(trace[k].path)
        /\ pc = "done" =>
              /\ Cardinality(Exports) = IMAGE_COUNT + 1
              /\ Cardinality(DOMAIN files) = IMAGE_COUNT + 1
              /\ trace[Len(trace)].path.prefix = "screenshot"

C6_Witness ==
    /\ Image = "None"
    /\ pc = "done"
    /\ Cardinality(DOMAIN files) = IMAGE_COUNT + 1
    /\ Len(printed) = 1 + 2 * IMAGE_COUNT + 1

RECURSIVE DigitsValue(_)
DigitsValue(d) ==
    IF d = <<>> THEN 0 ELSE 10 * DigitsValue(SubSeq(d, 1, Len(d) - 1)) + d[Len(d)]

\* The operations of the first n iterations, in order, then the screenshot.
RECURSIVE IterationOps(_)
IterationOps(n) ==
    IF n = 0 THEN <<>>
    ELSE IterationOps(n - 1) \o
         << <<"clear", n>>, <<"sample", n>>, <<"draw", n>>, <<"export", n>> >>
BatchOps == IterationOps(IMAGE_COUNT) \o << <<"export", IMAGE_COUNT>> >>

\* The canvas shows the figure of the current parameters and nothing else.
OnlyThisFigure(items) ==
    /\ Len(items) = 2 * parameters.base_elements
    /\ \A k \in DOMAIN items :
          /\ items[k].kind = "arc"
          /\ items[k].radius = parameters.size
          /\ items[k].width = parameters.line_width
          /\ ColorTuple(items[k].color) = parameters.color
          /\ <<items[k].from.x, items[k].from.y>> = parameters.position

\* C8: every iteration clears, samples, draws and exports, in that order, to
\* a path that carries the iteration's index; what is exported is the figure
\* drawn in that iteration alone; distinct iterations export to distinct
\* paths.
C8_IterationsIsolated ==
    /\ Len(trace) <= Len(BatchOps)
    /\ \A k \in DOMAIN trace : <<trace[k].op, trace[k].index>> = BatchOps[k]
    /\ \A k \in Exports :
          k < Len(BatchOps) =>
              /\ trace[k].path.prefix = "img_"
              /\ Len(trace[k].path.digits) >= 3
              /\ DigitsValue(trace[k].path.digits) = trace[k].index
    /\ \A j, k \in Exports : j # k => trace[j].path # trace[k].path
    /\ InSave => OnlyThisFigure(canvas)
    /\ pc = "save_69" => files[save.eps_path].items = canvas
    /\ pc = "save_81" => files[save.path].items = canvas

C8_Witness ==
    /\ pc = "save_81"
    /\ img_index = IMAGE_COUNT
    /\ save.ret = "main_150"
    /\ Len(trace) = 4 * IMAGE_COUNT
    /\ Len(canvas) > 0

====
